---- MODULE Spec2Model ----
(***************************************************************************)
(* Model of the interview runner of data-gather: the selection of the      *)
(* starting screens (models/Interview.getStartingScreens), the runner view *)
(* (BaseInterviewRunnerView / InterviewRunnerView), the resolution of the   *)
(* submission actions on completion (onInterviewComplete) and the record   *)
(* sink calls.  The interview engine (@dataclinic/interview) and           *)
(* script/ConfigurableScript are not part of the sources at hand; they are *)
(* modelled from sections 4.1 - 4.5 of the specification.                  *)
(***************************************************************************)
EXTENDS Integers, Sequences, FiniteSets, TLC

(***************************************************************************)
(* Bounds of the model.                                                    *)
(***************************************************************************)
NumScreens == 3
MaxOrder == 2
MaxEffectRuns == 2
MaxResets == 1
MaxRules == 2
MaxSubmissionActions == 2
MaxInstant == 1
MaxStoreCalls == 3
MaxSavedActions == 2
MaxUuids == 3

(***************************************************************************)
(* Optional values: undefined is the empty sequence, a defined value v is  *)
(* the one-element sequence <<v>>.                                         *)
(***************************************************************************)
Undefined == <<>>
Def(v) == <<v>>
IsDefined(o) == o # Undefined
ValueOf(o) == o[1]

(* a ?? '' *)
OrEmptyString(o) == IF IsDefined(o) THEN ValueOf(o) ELSE ""

(* JavaScript truthiness of a string | undefined *)
Truthy(o) == IsDefined(o) /\ ValueOf(o) # ""

(***************************************************************************)
(* Sequences helpers.                                                      *)
(***************************************************************************)
Range(s) == {s[i] : i \in 1..Len(s)}

RECURSIVE SeqsUpTo(_, _)
SeqsUpTo(S, n) ==
  IF n = 0 THEN {<<>>}
  ELSE LET shorter == SeqsUpTo(S, n - 1)
       IN  shorter \cup {Append(s, x) : s \in {t \in shorter : Len(t) = n - 1}, x \in S}

(***************************************************************************)
(* Entities.  Screen i holds the single entry i.  Entries with an even id  *)
(* are Airtable-backed (their answer is a record of fields), the others    *)
(* are text entries.                                                       *)
(***************************************************************************)
ScreenIds == 1..NumScreens
EntryIds == 1..NumScreens

TEXT == "text"
AIRTABLE == "airtable"
EDIT_ROW == "edit_row"
INSERT_ROW == "insert_row"
NOW_DATE == "now_date"

ResponseKeyOf(e) == <<"responseKey", e>>
ResponseKeys == {ResponseKeyOf(e) : e \in EntryIds}

Entry(e) ==
  [ id |-> e,
    responseKey |-> ResponseKeyOf(e),
    responseType |-> IF e % 2 = 0 THEN AIRTABLE ELSE TEXT,
    responseTypeOptions |-> [ selectedBase |-> <<"base", e>>,
                              selectedTable |-> <<"table", e>> ] ]

(* entries.get(screenId): the entries shown on a screen *)
EntriesOfScreen(screenId) == <<Entry(screenId)>>

(* The answers a respondent can give to an entry. *)
TextStrings == {"", "x"}
FieldKeys == {"id", "name"}
AnswersOf(e) ==
  IF Entry(e).responseType = AIRTABLE
  THEN {[kind |-> "record", text |-> "", fields |-> f] :
          f \in [FieldKeys -> {"", "v"}]}
  ELSE {[kind |-> "text", text |-> t, fields |-> [k \in FieldKeys |-> ""]] :
          t \in TextStrings}

VARIABLES
  screens,                (* interview.screens / useInterviewScreens *)
  actions,                (* useInterviewConditionalActions: screen id -> rules *)
  submissionActions,      (* interview.submissionActions *)
  currentScreen,          (* React state of BaseInterviewRunnerView *)
  responseConsumer,
  completedResponseData,
  errorOnComplete,
  toasts,                 (* actions for which raiseHTTPErrorToast has run *)
  resetCounter,           (* React state of InterviewRunnerView *)
  isResetConfirmationModalOpen,
  engine,                 (* the engine whose consumer the view holds *)
  engineCount,            (* engines constructed by this mount of the view *)
  liveEngines,            (* engines of this mount that await a response *)
  sinkCalls,              (* record sink calls issued by this mount *)
  effectRuns,             (* bounded number of effect runs overall *)
  askedAfterTerminal,     (* history: moderator.ask ran after a completion *)
  completions,            (* history: completion callbacks of this mount *)
  lastSubmitted,          (* history: the screen the engine was last submitted on *)
  staleEngine,            (* the engine of an unmounted view, held by a pending submit *)
  staleSinkCalls,         (* record sink calls issued by the unmounted view *)
  interviews,             (* InterviewStoreAPI.interviews: id -> interview *)
  interviewScreens,       (* InterviewStoreAPI.interviewScreens: id -> screen *)
  interviewScreenEntries, (* InterviewStoreAPI.interviewScreenEntries: stored ids *)
  conditionalActions,     (* InterviewStoreAPI.conditionalActions: stored ids *)
  storeCalls,             (* the calls of store operations, each at an await *)
  editedActions,          (* OnSubmitCard: interview.submissionActions being edited *)
  uuidCount               (* OnSubmitCard: the uuids handed out by uuidv4 *)

config == <<screens, actions, submissionActions>>
viewState == <<currentScreen, responseConsumer, completedResponseData,
               errorOnComplete, toasts>>
outerState == <<resetCounter, isResetConfirmationModalOpen>>
engineState == <<engine, engineCount, liveEngines>>
history == <<askedAfterTerminal, completions, lastSubmitted>>
staleState == <<staleEngine, staleSinkCalls>>
runnerVars == <<config, viewState, outerState, engineState, sinkCalls,
                effectRuns, history, staleState>>
tables == <<interviews, interviewScreens, interviewScreenEntries,
            conditionalActions>>
storeVars == <<tables, storeCalls>>
editorVars == <<editedActions, uuidCount>>
vars == <<runnerVars, storeVars, editorVars>>

(***************************************************************************)
(* models/Interview.getStartingScreens: the screens flagged as starting    *)
(* screens that have a startingStateOrder, sorted by descending order.     *)
(* Array.prototype.sort is stable: screens of equal order keep the order   *)
(* in which they were supplied.                                            *)
(***************************************************************************)
(* (scr1, scr2) => (scr2.startingStateOrder ?? 0) - (scr1.startingStateOrder ?? 0) *)
CompareStartingOrder(scr1, scr2) ==
  (IF IsDefined(scr2.startingStateOrder) THEN ValueOf(scr2.startingStateOrder) ELSE 0)
  - (IF IsDefined(scr1.startingStateOrder) THEN ValueOf(scr1.startingStateOrder) ELSE 0)

(* One step of a stable sort: x goes behind every element that the        *)
(* comparator does not place after it.                                     *)
RECURSIVE InsertSorted(_, _)
InsertSorted(sorted, x) ==
  IF sorted = <<>> THEN <<x>>
  ELSE IF CompareStartingOrder(sorted[Len(sorted)], x) <= 0
       THEN Append(sorted, x)
       ELSE Append(InsertSorted(SubSeq(sorted, 1, Len(sorted) - 1), x),
                   sorted[Len(sorted)])

RECURSIVE StableSort(_)
StableSort(s) ==
  IF s = <<>> THEN <<>>
  ELSE InsertSorted(StableSort(SubSeq(s, 1, Len(s) - 1)), s[Len(s)])

IsStartingScreen(screen) ==
  screen.isInStartingState /\ IsDefined(screen.startingStateOrder)

(* Array.prototype.filter returns a new array: its receiver stays as it is *)
ReceiverAfterFilter(array) == array

(* Array.prototype.sort sorts its receiver in place *)
ReceiverAfterSort(array) == StableSort(array)

(* mutant: interview.screens itself is sorted, before it is filtered *)
screensSortedInPlace(screensOfInterview) ==
  ReceiverAfterSort(screensOfInterview)

(* interview.screens after getStartingScreens: filter is called on         *)
(* interview.screens, sort on the array that filter returned               *)
screensAfterGetStartingScreens(screensOfInterview) ==
  ReceiverAfterFilter(screensOfInterview)

(* mutant: the starting screens are left in the order they were supplied *)
getStartingScreensUnsorted(screensOfInterview) ==
  SelectSeq(screensOfInterview, IsStartingScreen)

getStartingScreens(screensOfInterview) ==
  StableSort(SelectSeq(screensOfInterview, IsStartingScreen))

(***************************************************************************)
(* ResponseAccumulator (specification 4.1).  ResponseData maps a           *)
(* responseKey to {entry, value}; its domain is the set of answered keys.  *)
(***************************************************************************)
EmptyResponseData == [k \in {} |-> Undefined]

(* mutant: recording an answer discards the answers of the other keys *)
RecordDiscardingOthers(responseData, entry, value) ==
  [k \in {entry.responseKey} |-> [entry |-> entry, value |-> value]]

Record(responseData, entry, value) ==
  [k \in (DOMAIN responseData) \cup {entry.responseKey} |->
     IF k = entry.responseKey THEN [entry |-> entry, value |-> value]
     ELSE responseData[k]]

RECURSIVE RecordAll(_, _, _)
RecordAll(responseData, entries, answers) ==
  IF entries = <<>> THEN responseData
  ELSE RecordAll(Record(responseData, Head(entries), Head(answers)),
                 Tail(entries), Tail(answers))

(***************************************************************************)
(* ConfigurableScript.getResponseValue (specification 4.4, step 1): the    *)
(* recorded answer of a responseKey, projected on a sub-field for a        *)
(* structured answer; the identity projection for a simple answer;         *)
(* undefined when there is no answer or no such sub-field.                 *)
(***************************************************************************)
getResponseValue(responseData, responseKey, responseFieldKey) ==
  IF responseKey \notin DOMAIN responseData THEN Undefined
  ELSE LET value == responseData[responseKey].value
       IN  IF value.kind = "text" THEN Def(value.text)
           ELSE IF responseFieldKey \in DOMAIN value.fields
                THEN Def(value.fields[responseFieldKey])
                ELSE Undefined

(***************************************************************************)
(* ConditionEvaluator (specification 4.2).  A condition compares the       *)
(* recorded answer of one entry with a value; an absent answer never       *)
(* matches.                                                                *)
(***************************************************************************)
(* mutant: an absent answer is compared as the empty string *)
matchesAbsentAsEmpty(condition, responseData) ==
  LET answer == OrEmptyString(getResponseValue(responseData,
                                 Entry(condition.entryId).responseKey,
                                 condition.responseFieldKey))
  IN  IF condition.op = "eq" THEN answer = condition.value
      ELSE answer # condition.value

matches(condition, responseData) ==
  LET answer == getResponseValue(responseData,
                                 Entry(condition.entryId).responseKey,
                                 condition.responseFieldKey)
  IN  /\ IsDefined(answer)
      /\ IF condition.op = "eq" THEN ValueOf(answer) = condition.value
         ELSE ValueOf(answer) # condition.value

(***************************************************************************)
(* FlowResolver (specification 4.3).  A state is a screen id or TERMINAL   *)
(* (undefined).                                                            *)
(***************************************************************************)
TERMINAL == Undefined

IndexOfScreen(screenId) ==
  CHOOSE i \in 1..Len(screens) : screens[i].id = screenId

(* mutant: after the last screen the flow wraps around to the first one *)
DefaultNextWrapsAround(screenId) ==
  IF IndexOfScreen(screenId) < Len(screens)
  THEN Def(screens[IndexOfScreen(screenId) + 1].id)
  ELSE Def(screens[1].id)

(* the default: the screen that follows in the order the screens were supplied *)
DefaultNext(screenId) ==
  IF IndexOfScreen(screenId) < Len(screens)
  THEN Def(screens[IndexOfScreen(screenId) + 1].id)
  ELSE TERMINAL

RECURSIVE FirstMatch(_, _)
FirstMatch(rules, responseData) ==
  IF rules = <<>> THEN Undefined
  ELSE IF matches(Head(rules), responseData) THEN Def(Head(rules))
       ELSE FirstMatch(Tail(rules), responseData)

(* mutant: the last matching rule decides *)
RECURSIVE LastMatch(_, _)
LastMatch(rules, responseData) ==
  IF rules = <<>> THEN Undefined
  ELSE IF matches(rules[Len(rules)], responseData) THEN Def(rules[Len(rules)])
       ELSE LastMatch(SubSeq(rules, 1, Len(rules) - 1), responseData)

nextByLastMatch(screenId, responseData) ==
  LET fired == LastMatch(actions[screenId], responseData)
  IN  IF IsDefined(fired) THEN ValueOf(fired).target
      ELSE DefaultNext(screenId)

next(screenId, responseData) ==
  LET fired == FirstMatch(actions[screenId], responseData)
  IN  IF IsDefined(fired) THEN ValueOf(fired).target
      ELSE DefaultNext(screenId)

(* mutant: without a starting screen the run starts at the first screen *)
InitialScreenOrFirst ==
  LET starting == getStartingScreens(screens)
  IN  IF starting = <<>> THEN Def(screens[1].id) ELSE Def(starting[1].id)

(* INITIAL -> first screen: the head of the starting screens, if any *)
InitialScreen ==
  LET starting == getStartingScreens(screens)
  IN  IF starting = <<>> THEN Undefined ELSE Def(starting[1].id)

(***************************************************************************)
(* The configuration check at construction (specification 3 and 7): every  *)
(* entry and screen that a conditional action or a submission action       *)
(* refers to exists in the supplied screen set.                            *)
(***************************************************************************)
SuppliedScreens == {screens[i].id : i \in 1..Len(screens)}

SuppliedEntries ==
  UNION {{EntriesOfScreen(s)[j].id : j \in 1..Len(EntriesOfScreen(s))} :
           s \in SuppliedScreens}

ValidConditionalAction(rule) ==
  /\ rule.entryId \in SuppliedEntries
  /\ rule.target = TERMINAL \/ ValueOf(rule.target) \in SuppliedScreens

ValidSubmissionAction(submissionAction) ==
  /\ submissionAction.config.type = EDIT_ROW =>
       submissionAction.config.payload.entryId \in SuppliedEntries
  /\ \A f \in DOMAIN submissionAction.fieldMappings :
       IsDefined(submissionAction.fieldMappings[f].entryId) =>
         ValueOf(submissionAction.fieldMappings[f].entryId) \in SuppliedEntries

(* mutant: the submission actions are not checked *)
ValidConfigurationOfRules ==
  \A s \in DOMAIN actions : \A i \in 1..Len(actions[s]) :
    ValidConditionalAction(actions[s][i])

ValidConfiguration ==
  /\ \A s \in DOMAIN actions : \A i \in 1..Len(actions[s]) :
       ValidConditionalAction(actions[s][i])
  /\ \A a \in 1..Len(submissionActions) :
       ValidSubmissionAction(submissionActions[a])

(***************************************************************************)
(* BaseInterviewRunnerView.onInterviewComplete: the resolution of the      *)
(* submission actions against the final response data.                     *)
(***************************************************************************)
(* the readings of the clock: milliseconds since the epoch *)
Instants == 0..MaxInstant

(* Date.prototype.toISOString, for the instants of the first second *)
toISOString(instant) ==
  "1970-01-01T00:00:00."
    \o (IF instant < 10 THEN "00" ELSE IF instant < 100 THEN "0" ELSE "")
    \o ToString(instant) \o "Z"

(* new Date().toISOString(), now being the instant of the call *)
getSpecialValueForSubmission(specialValueType, now) ==
  IF specialValueType = NOW_DATE THEN toISOString(now)
  ELSE "unreachable"

(* the ids of the fields of the record sink that are mapped *)
FieldIds == {"f1", "f2"}

(* the readings of the clock during one onInterviewComplete: for the       *)
(* action at each index, the instant at which each of its fields is        *)
(* resolved; the clock is the machine's and any reading may follow any     *)
Clocks == [1..MaxSubmissionActions -> [FieldIds -> Instants]]

(* allEntries: entry id -> entry, for the entries found in the response data *)
AllEntries(responseData) ==
  [e \in {responseData[k].entry.id : k \in DOMAIN responseData} |->
     responseData[CHOOSE k \in DOMAIN responseData :
                    responseData[k].entry.id = e].entry]

(* EDIT_ROW: the value a field mapping resolves to *)
EditRowResponseValue(entryLookupConfig, responseData, now) ==
  LET allEntries == AllEntries(responseData)
  IN  IF IsDefined(entryLookupConfig.entryId)
      THEN IF ValueOf(entryLookupConfig.entryId) \in DOMAIN allEntries
           THEN OrEmptyString(getResponseValue(
                  responseData,
                  allEntries[ValueOf(entryLookupConfig.entryId)].responseKey,
                  entryLookupConfig.responseFieldKey))
           ELSE ""
      ELSE IF IsDefined(entryLookupConfig.specialValueType)
           THEN getSpecialValueForSubmission(
                  ValueOf(entryLookupConfig.specialValueType), now)
           ELSE ""

(* mutant: empty values are sent as well *)
EditRowFieldsKeepingEmpty(submissionAction, responseData, nowOf) ==
  [fieldId \in DOMAIN submissionAction.fieldMappings |->
     EditRowResponseValue(submissionAction.fieldMappings[fieldId], responseData,
           nowOf[fieldId])]

(* EDIT_ROW: the fields of the payload; empty values are ignored *)
EditRowFields(submissionAction, responseData, nowOf) ==
  LET fieldMappings == submissionAction.fieldMappings
  IN  [fieldId \in {f \in DOMAIN fieldMappings :
                      EditRowResponseValue(fieldMappings[f], responseData,
           nowOf[f]) # ""} |->
         EditRowResponseValue(fieldMappings[fieldId], responseData,
           nowOf[fieldId])]

(* mutant: a mapping whose entry has no answer takes the special value *)
InsertRowResponseValueOrSpecial(entryLookupConfig, responseData, now) ==
  LET allEntries == AllEntries(responseData)
  IN  IF /\ IsDefined(entryLookupConfig.entryId)
         /\ ValueOf(entryLookupConfig.entryId) \in DOMAIN allEntries
      THEN OrEmptyString(getResponseValue(
             responseData,
             allEntries[ValueOf(entryLookupConfig.entryId)].responseKey,
             entryLookupConfig.responseFieldKey))
      ELSE IF IsDefined(entryLookupConfig.specialValueType)
           THEN getSpecialValueForSubmission(
                  ValueOf(entryLookupConfig.specialValueType), now)
           ELSE ""

(* INSERT_ROW: the value a field mapping resolves to (a copy of the code above) *)
InsertRowResponseValue(entryLookupConfig, responseData, now) ==
  LET allEntries == AllEntries(responseData)
  IN  IF IsDefined(entryLookupConfig.entryId)
      THEN IF ValueOf(entryLookupConfig.entryId) \in DOMAIN allEntries
           THEN OrEmptyString(getResponseValue(
                  responseData,
                  allEntries[ValueOf(entryLookupConfig.entryId)].responseKey,
                  entryLookupConfig.responseFieldKey))
           ELSE ""
      ELSE IF IsDefined(entryLookupConfig.specialValueType)
           THEN getSpecialValueForSubmission(
                  ValueOf(entryLookupConfig.specialValueType), now)
           ELSE ""

(* INSERT_ROW: the fields of the payload; empty values are ignored *)
InsertRowFields(submissionAction, responseData, nowOf) ==
  LET fieldMappings == submissionAction.fieldMappings
  IN  [fieldId \in {f \in DOMAIN fieldMappings :
                      InsertRowResponseValue(fieldMappings[f], responseData,
           nowOf[f]) # ""} |->
         InsertRowResponseValue(fieldMappings[fieldId], responseData,
           nowOf[fieldId])]

(* mutant: the record id found is not tested before the update is sent *)
EditRowCallsWithoutIdTest(submissionAction, index, responseData, nowOf) ==
  LET actionPayload == submissionAction.config.payload
      allEntries == AllEntries(responseData)
  IN  IF /\ actionPayload.entryId \in DOMAIN allEntries
         /\ allEntries[actionPayload.entryId].responseType = AIRTABLE
      THEN LET entryTarget == allEntries[actionPayload.entryId]
           IN  << [ op |-> "updateRecord",
                    baseId |-> entryTarget.responseTypeOptions.selectedBase,
                    tableId |-> entryTarget.responseTypeOptions.selectedTable,
                    recordId |-> OrEmptyString(
                      getResponseValue(responseData, entryTarget.responseKey,
                                       actionPayload.primaryKeyField)),
                    fields |-> EditRowFields(submissionAction, responseData, nowOf),
                    action |-> index,
                    status |-> "pending" ] >>
      ELSE <<>>

(* mutant: the update is sent whatever the response type of the entry *)
EditRowCallsOfAnyType(submissionAction, index, responseData, nowOf) ==
  LET actionPayload == submissionAction.config.payload
      allEntries == AllEntries(responseData)
  IN  IF actionPayload.entryId \in DOMAIN allEntries
      THEN LET entryTarget == allEntries[actionPayload.entryId]
               airtableRecordId ==
                 getResponseValue(responseData, entryTarget.responseKey,
                                  actionPayload.primaryKeyField)
           IN  IF Truthy(airtableRecordId)
               THEN << [ op |-> "updateRecord",
                         baseId |-> entryTarget.responseTypeOptions.selectedBase,
                         tableId |-> entryTarget.responseTypeOptions.selectedTable,
                         recordId |-> ValueOf(airtableRecordId),
                         fields |-> EditRowFields(submissionAction, responseData, nowOf),
                         action |-> index,
                         status |-> "pending" ] >>
               ELSE <<>>
      ELSE <<>>

(* case EDIT_ROW: the calls to airtableUpdateRecord (none or one) *)
EditRowCalls(submissionAction, index, responseData, nowOf) ==
  LET actionPayload == submissionAction.config.payload
      allEntries == AllEntries(responseData)
  IN  IF /\ actionPayload.entryId \in DOMAIN allEntries
         /\ allEntries[actionPayload.entryId].responseType = AIRTABLE
      THEN LET entryTarget == allEntries[actionPayload.entryId]
               airtableRecordId ==
                 getResponseValue(responseData, entryTarget.responseKey,
                                  actionPayload.primaryKeyField)
           IN  IF Truthy(airtableRecordId)
               THEN << [ op |-> "updateRecord",
                         baseId |-> entryTarget.responseTypeOptions.selectedBase,
                         tableId |-> entryTarget.responseTypeOptions.selectedTable,
                         recordId |-> ValueOf(airtableRecordId),
                         fields |-> EditRowFields(submissionAction, responseData, nowOf),
                         action |-> index,
                         status |-> "pending" ] >>
               ELSE <<>>
      ELSE <<>>

(* mutant: nothing is created when no field is left *)
InsertRowCallsUnlessEmpty(submissionAction, index, responseData, nowOf) ==
  IF DOMAIN InsertRowFields(submissionAction, responseData, nowOf) = {} THEN <<>>
  ELSE << [ op |-> "createRecord",
            baseId |-> submissionAction.config.payload.baseTarget,
            tableId |-> submissionAction.config.payload.tableTarget,
            recordId |-> "",
            fields |-> InsertRowFields(submissionAction, responseData, nowOf),
            action |-> index,
            status |-> "pending" ] >>

(* case INSERT_ROW: the call to airtableCreateRecord *)
InsertRowCalls(submissionAction, index, responseData, nowOf) ==
  << [ op |-> "createRecord",
       baseId |-> submissionAction.config.payload.baseTarget,
       tableId |-> submissionAction.config.payload.tableTarget,
       recordId |-> "",
       fields |-> InsertRowFields(submissionAction, responseData, nowOf),
       action |-> index,
       status |-> "pending" ] >>

(* the body of interview.submissionActions.forEach *)
HandleSubmissionAction(submissionAction, index, responseData, nowOf) ==
  IF submissionAction.config.type = EDIT_ROW
  THEN EditRowCalls(submissionAction, index, responseData, nowOf)
  ELSE InsertRowCalls(submissionAction, index, responseData, nowOf)

(* mutant: once a record was created the remaining actions are not handled *)
RECURSIVE HandleFromUntilInsert(_, _, _, _)
HandleFromUntilInsert(allActions, index, responseData, clock) ==
  IF index > Len(allActions) THEN <<>>
  ELSE IF allActions[index].config.type = INSERT_ROW
  THEN InsertRowCalls(allActions[index], index, responseData, clock[index])
  ELSE EditRowCalls(allActions[index], index, responseData, clock[index])
       \o HandleFromUntilInsert(allActions, index + 1, responseData, clock)

RECURSIVE HandleFrom(_, _, _, _)
HandleFrom(allActions, index, responseData, clock) ==
  IF index > Len(allActions) THEN <<>>
  ELSE HandleSubmissionAction(allActions[index], index, responseData,
                              clock[index])
       \o HandleFrom(allActions, index + 1, responseData, clock)

(* the sink calls issued by onInterviewComplete(responseData), in order *)
onInterviewComplete(responseData, clock) ==
  HandleFrom(submissionActions, 1, responseData, clock)

(***************************************************************************)
(* What BaseInterviewRunnerView renders.                                   *)
(***************************************************************************)
ShowsCompletionScreen == IsDefined(completedResponseData)

ShowsRunnerScreen ==
  /\ ~ShowsCompletionScreen
  /\ IsDefined(currentScreen)
  /\ IsDefined(responseConsumer)

(***************************************************************************)
(* The engine (specification 4.5).                                         *)
(***************************************************************************)
IdleEngine ==
  [status |-> "idle", screen |-> Undefined, responseData |-> EmptyResponseData]

(* step 2: the submitted answers are recorded, then the next state is computed *)
(* a mutant of the engine step that computes the next state before the     *)
(* submitted answers are recorded                                          *)
EngineSubmitResolvingFirst(eng, answers) ==
  LET screenId == ValueOf(eng.screen)
      recorded == RecordAll(eng.responseData, EntriesOfScreen(screenId), answers)
      target == next(screenId, eng.responseData)
  IN  IF target = TERMINAL
      THEN [status |-> "terminal", screen |-> Undefined, responseData |-> recorded]
      ELSE [status |-> "awaiting", screen |-> target, responseData |-> recorded]

EngineSubmit(eng, answers) ==
  LET screenId == ValueOf(eng.screen)
      recorded == RecordAll(eng.responseData, EntriesOfScreen(screenId), answers)
      target == next(screenId, recorded)
  IN  IF target = TERMINAL
      THEN [status |-> "terminal", screen |-> Undefined, responseData |-> recorded]
      ELSE [status |-> "awaiting", screen |-> target, responseData |-> recorded]

(* the answers a respondent can submit on a screen, one per entry *)
RECURSIVE AnswersOfEntries(_)
AnswersOfEntries(entries) ==
  IF entries = <<>> THEN {<<>>}
  ELSE {<<a>> \o rest : a \in AnswersOf(Head(entries).id),
                        rest \in AnswersOfEntries(Tail(entries))}

(***************************************************************************)
(* The effect of BaseInterviewRunnerView: construct an engine and run it.  *)
(* It runs when the interview, the screens and the actions are loaded and  *)
(* again whenever one of its dependencies changes.                         *)
(***************************************************************************)
RunEffect ==
  /\ effectRuns < MaxEffectRuns
  /\ effectRuns' = effectRuns + 1
  /\ IF ValidConfiguration /\ IsDefined(InitialScreen)
     THEN /\ engine' = [status |-> "awaiting", screen |-> InitialScreen,
                        responseData |-> EmptyResponseData]
          /\ engineCount' = engineCount + 1
          /\ liveEngines' = liveEngines + 1
          (* moderator.ask(consumer, screen) *)
          /\ responseConsumer' = Def(engineCount + 1)
          /\ currentScreen' = InitialScreen
          /\ askedAfterTerminal' = (askedAfterTerminal \/ ShowsCompletionScreen)
          /\ lastSubmitted' = Undefined
     ELSE (* configuration error: the flow does not start *)
          /\ engine' = [engine EXCEPT !.status = "failed"]
          /\ UNCHANGED <<engineCount, liveEngines, responseConsumer,
                         currentScreen, askedAfterTerminal, lastSubmitted>>
  /\ screens' = screensAfterGetStartingScreens(screens)
  /\ UNCHANGED <<storeVars, editorVars, actions, submissionActions,
                 completedResponseData, errorOnComplete, toasts, outerState,
                 sinkCalls, completions, staleState>>

(***************************************************************************)
(* The respondent submits the screen shown: responseConsumer.submit.       *)
(***************************************************************************)
(* mutant: the actions are resolved against response data of before the run *)
RunCallbackOnStaleData(result) ==
  /\ completedResponseData' = Def(result)
  /\ \E clock \in Clocks :
       sinkCalls' = sinkCalls \o onInterviewComplete(EmptyResponseData, clock)
  /\ completions' = completions + 1

(* engine.run's callback: setCompletedResponseData; onInterviewComplete *)
RunCallback(result) ==
  /\ completedResponseData' = Def(result)
  /\ \E clock \in Clocks :
       sinkCalls' = sinkCalls \o onInterviewComplete(result, clock)
  /\ completions' = completions + 1

Submit(answers) ==
  /\ ShowsRunnerScreen
  /\ engine.status = "awaiting"
  /\ engine' = EngineSubmit(engine, answers)
  /\ lastSubmitted' = engine.screen
  /\ IF engine'.status = "terminal"
     THEN /\ RunCallback(engine'.responseData)
          /\ liveEngines' = liveEngines - 1
          /\ UNCHANGED <<responseConsumer, currentScreen, askedAfterTerminal>>
     ELSE (* moderator.ask(consumer, screen) *)
          /\ responseConsumer' = Def(engineCount)
          /\ currentScreen' = engine'.screen
          /\ askedAfterTerminal' = (askedAfterTerminal \/ ShowsCompletionScreen)
          /\ UNCHANGED <<completedResponseData, sinkCalls, completions,
                         liveEngines>>
  /\ UNCHANGED <<storeVars, editorVars, config, errorOnComplete, toasts, outerState, engineCount,
                 effectRuns,
                 staleState>>

SubmitScreen ==
  /\ ShowsRunnerScreen
  /\ \E answers \in AnswersOfEntries(EntriesOfScreen(ValueOf(currentScreen))) :
       Submit(answers)

(***************************************************************************)
(* The record sink answers a pending call; a failure runs onError.         *)
(***************************************************************************)
(* The callbacks given to mutate belong to the observer of the useMutation *)
(* hook, which follows the mutation of its latest mutate call only: the    *)
(* onError of a call runs when no later call was made through its hook.    *)
(* forEach makes every call before any of them settles.                    *)
IsLatestMutate(i) ==
  \A j \in (i + 1)..Len(sinkCalls) : sinkCalls[j].op # sinkCalls[i].op

(* mutant: a failure cancels the calls dispatched after the failed one *)
SettleSinkCallCancellingSiblings(i, ok) ==
  /\ i \in 1..Len(sinkCalls)
  /\ sinkCalls[i].status = "pending"
  /\ sinkCalls' =
       IF ok THEN [sinkCalls EXCEPT ![i].status = "ok"]
       ELSE SubSeq([sinkCalls EXCEPT ![i].status = "failed"], 1, i)
  /\ IF ~ok /\ IsLatestMutate(i)
     THEN /\ toasts' = toasts \cup {sinkCalls[i].action}
          /\ errorOnComplete' = Def([action |-> sinkCalls[i].action])
     ELSE UNCHANGED <<toasts, errorOnComplete>>
  /\ UNCHANGED <<storeVars, editorVars, config, currentScreen, responseConsumer, completedResponseData,
                 outerState, engineState, effectRuns, history, staleState>>

(* mutant: a failed call is issued again *)
SettleSinkCallRetrying(i, ok) ==
  /\ i \in 1..Len(sinkCalls)
  /\ sinkCalls[i].status = "pending"
  /\ sinkCalls' =
       IF ok THEN [sinkCalls EXCEPT ![i].status = "ok"]
       ELSE Append([sinkCalls EXCEPT ![i].status = "failed"], sinkCalls[i])
  /\ UNCHANGED <<toasts, errorOnComplete>>
  /\ UNCHANGED <<storeVars, editorVars, config, currentScreen, responseConsumer, completedResponseData,
                 outerState, engineState, effectRuns, history, staleState>>

SettleSinkCall(i, ok) ==
  /\ i \in 1..Len(sinkCalls)
  /\ sinkCalls[i].status = "pending"
  /\ sinkCalls' = [sinkCalls EXCEPT ![i].status = IF ok THEN "ok" ELSE "failed"]
  (* onError: raiseHTTPErrorToast, setErrorOnComplete *)
  /\ IF ~ok /\ IsLatestMutate(i)
     THEN /\ toasts' = toasts \cup {sinkCalls[i].action}
          /\ errorOnComplete' = Def([action |-> sinkCalls[i].action])
     ELSE UNCHANGED <<toasts, errorOnComplete>>
  /\ UNCHANGED <<storeVars, editorVars, config, currentScreen, responseConsumer, completedResponseData,
                 outerState, engineState, effectRuns, history, staleState>>

SinkSucceeds == \E i \in 1..Len(sinkCalls) : SettleSinkCall(i, TRUE)
SinkFails == \E i \in 1..Len(sinkCalls) : SettleSinkCall(i, FALSE)

(***************************************************************************)
(* InterviewRunnerView: the reset of the interview.  A new resetCounter is *)
(* a new key: BaseInterviewRunnerView is mounted again with fresh state.   *)
(***************************************************************************)
(* mutant: the state of the completion survives the new key *)
RemountKeepingCompletion ==
  /\ currentScreen' = Undefined
  /\ responseConsumer' = Undefined
  /\ UNCHANGED <<completedResponseData, errorOnComplete>>
  /\ toasts' = {}
  /\ engine' = IdleEngine
  /\ engineCount' = 0
  /\ liveEngines' = 0
  /\ sinkCalls' = <<>>
  /\ effectRuns' = 0
  /\ askedAfterTerminal' = FALSE
  /\ completions' = 0
  /\ lastSubmitted' = Undefined

Remount ==
  /\ currentScreen' = Undefined
  /\ responseConsumer' = Undefined
  /\ completedResponseData' = Undefined
  /\ errorOnComplete' = Undefined
  /\ toasts' = {}
  /\ engine' = IdleEngine
  /\ engineCount' = 0
  /\ liveEngines' = 0
  /\ sinkCalls' = <<>>
  /\ effectRuns' = 0
  /\ askedAfterTerminal' = FALSE
  /\ completions' = 0
  /\ lastSubmitted' = Undefined

(***************************************************************************)
(* A submit through the response consumer of the mount that a reset has    *)
(* unmounted.  The engine of that mount is driven on; its moderator and    *)
(* its run callback set the state of the unmounted component, which React  *)
(* ignores, and the callback calls onInterviewComplete of that mount.      *)
(***************************************************************************)
StaleSubmit(answers) ==
  /\ staleEngine.status = "awaiting"
  /\ staleEngine' = EngineSubmit(staleEngine, answers)
  /\ IF staleEngine'.status = "terminal"
     THEN \E clock \in Clocks :
            staleSinkCalls' =
              staleSinkCalls \o onInterviewComplete(staleEngine'.responseData,
                                                    clock)
     ELSE staleSinkCalls' = staleSinkCalls
  /\ UNCHANGED <<storeVars, editorVars, config, viewState, outerState, engineState, sinkCalls,
                 effectRuns, history>>

StaleSubmitScreen ==
  /\ staleEngine.status = "awaiting"
  /\ \E answers \in AnswersOfEntries(EntriesOfScreen(ValueOf(staleEngine.screen))) :
       StaleSubmit(answers)

onInterviewResetRequest ==
  /\ ShowsRunnerScreen
  /\ ~isResetConfirmationModalOpen
  /\ isResetConfirmationModalOpen' = TRUE
  /\ UNCHANGED <<storeVars, editorVars, config, viewState, resetCounter, engineState, sinkCalls,
                 effectRuns, history, staleState>>

onDismiss ==
  /\ isResetConfirmationModalOpen
  /\ isResetConfirmationModalOpen' = FALSE
  /\ UNCHANGED <<storeVars, editorVars, config, viewState, resetCounter, engineState, sinkCalls,
                 effectRuns, history, staleState>>

onInterviewResetConfirm ==
  /\ isResetConfirmationModalOpen
  /\ resetCounter <= MaxResets
  /\ resetCounter' = resetCounter + 1
  /\ isResetConfirmationModalOpen' = FALSE
  /\ Remount
  /\ UNCHANGED <<storeVars, editorVars, config, staleState>>

onStartNewInterview ==
  /\ ShowsCompletionScreen
  /\ resetCounter <= MaxResets
  /\ resetCounter' = resetCounter + 1
  /\ Remount
  /\ UNCHANGED <<storeVars, editorVars, config, isResetConfirmationModalOpen, staleState>>

(***************************************************************************)
(* The reset is confirmed while a submission of the screen shown is        *)
(* pending: the pending submission holds the response consumer of the      *)
(* engine of the unmounted view.  The effect has no cleanup, the engine is *)
(* left as it is.                                                          *)
(***************************************************************************)
ResetWithPendingSubmission ==
  /\ isResetConfirmationModalOpen
  /\ ShowsRunnerScreen
  /\ engine.status = "awaiting"
  /\ resetCounter <= MaxResets
  /\ resetCounter' = resetCounter + 1
  /\ isResetConfirmationModalOpen' = FALSE
  /\ Remount
  /\ staleEngine' = engine
  /\ staleSinkCalls' = <<>>
  /\ UNCHANGED <<storeVars, editorVars, config>>

Next ==
  \/ RunEffect
  \/ SubmitScreen
  \/ SinkSucceeds
  \/ SinkFails
  \/ onInterviewResetRequest
  \/ onDismiss
  \/ onInterviewResetConfirm
  \/ onStartNewInterview

(* the steps of the view when a pending submission can outlive a reset *)
NextStale ==
  \/ Next
  \/ ResetWithPendingSubmission
  \/ StaleSubmitScreen

(***************************************************************************)
(* store/InterviewStore: the browser store of interview definitions, four  *)
(* Dexie tables.  No operation runs in a Dexie transaction: each table     *)
(* request is atomic on its own and every await is a point at which the    *)
(* requests of other calls may run.  The model follows one interview id.   *)
(***************************************************************************)
InterviewId == "interview"
StoreScreenIds == {"s1", "s2"}
StoreCalls == 1..MaxStoreCalls

(* a screen with one entry and one conditional action of its own *)
ScreenOfStore(s) ==
  [id |-> s, entries |-> {<<"entry", s>>}, actions |-> {<<"action", s>>}]

(* Table.get(key): the row, or undefined *)
Get(table, key) ==
  IF key \in DOMAIN table THEN Def(table[key]) ELSE Undefined

(* Table.put(row): add the row or replace the row of the same key *)
Put(table, key, row) ==
  [k \in DOMAIN table \cup {key} |-> IF k = key THEN row ELSE table[k]]

(* Table.bulkDelete(keys) / Table.delete(key) *)
BulkDelete(table, keys) ==
  [k \in DOMAIN table \ keys |-> table[k]]

(* Table.bulkGet(keys).filter(isNonNullable) *)
getScreens(screenIds) ==
  {interviewScreens[s] : s \in screenIds \cap DOMAIN interviewScreens}

(* Interview.create: an interview without screens *)
NewInterview == [id |-> InterviewId, screens |-> <<>>]

(* Interview.addScreen(interview, interviewScreen) *)
addScreen(interview, interviewScreen) ==
  [interview EXCEPT !.screens = Append(@, interviewScreen.id)]

IdleCall ==
  [op |-> "none", pc |-> "idle", screen |-> Undefined, interview |-> Undefined,
   entryIds |-> {}, actionIds |-> {}, pending |-> {}, mutualCalls |-> 0,
   result |-> "none",
   absent |-> FALSE, wrote |-> FALSE]

IsRunning(call) == call.pc \notin {"idle", "done"}

(* history: the running calls other than the writer note that the         *)
(* interview is in the store                                               *)
Seen(calls, writer) ==
  [t \in DOMAIN calls |->
     IF t # writer /\ IsRunning(calls[t]) /\ InterviewId \in DOMAIN interviews'
     THEN [calls[t] EXCEPT !.absent = FALSE]
     ELSE calls[t]]

Finished(call, result) ==
  [call EXCEPT !.pc = "done", !.result = result]

(* the synchronous start of a call, up to its first await *)
StartCall(t, op, interviewScreen, interview) ==
  /\ storeCalls[t].pc = "idle"
  /\ \A u \in StoreCalls : u < t => storeCalls[u].pc # "idle"
  /\ op = "createInterview" => t = 1 /\ InterviewId \notin DOMAIN interviews
  /\ storeCalls' = [storeCalls EXCEPT ![t] =
       [IdleCall EXCEPT
          !.op = op,
          !.pc = CASE op = "createInterview" -> "interviews.add"
                   [] op = "putInterview" -> "interviews.put"
                   [] op = "putScreen" -> "putScreen.get"
                   [] op = "addScreenToInterview" -> "addScreenToInterview.get"
                   [] op = "deleteInterview" -> "deleteInterview.get",
          !.screen = IF op \in {"putScreen", "addScreenToInterview"}
                     THEN Def(interviewScreen) ELSE Undefined,
          !.interview = IF op = "putInterview" THEN Def(interview) ELSE Undefined,
          !.mutualCalls = IF op \in {"putScreen", "addScreenToInterview"}
                          THEN 1 ELSE 0,
          !.absent = InterviewId \notin DOMAIN interviews]]
  /\ UNCHANGED <<tables, editorVars, runnerVars>>

(* Table.add(row): the row is added unless its key is in the table; then  *)
(* the table stays as it is and the request is rejected (ConstraintError)  *)
Add(table, key, row) ==
  IF key \in DOMAIN table THEN table ELSE Put(table, key, row)

(* createInterview: await this.interviews.add(newInterview) *)
createInterview(t) ==
  /\ storeCalls[t].pc = "interviews.add"
  /\ interviews' = Add(interviews, InterviewId, NewInterview)
  /\ storeCalls' = Seen([storeCalls EXCEPT ![t] =
       Finished(@, IF InterviewId \in DOMAIN interviews
                   THEN "rejected" ELSE "stored")], t)
  /\ UNCHANGED <<interviewScreens, interviewScreenEntries, conditionalActions,
                 editorVars, runnerVars>>

(* putInterview: await this.interviews.put(interview) *)
putInterview(t) ==
  /\ storeCalls[t].pc = "interviews.put"
  /\ interviews' = Put(interviews, InterviewId, ValueOf(storeCalls[t].interview))
  /\ storeCalls' = Seen([storeCalls EXCEPT ![t] = Finished(@, "stored")], t)
  /\ UNCHANGED <<interviewScreens, interviewScreenEntries, conditionalActions,
                 editorVars, runnerVars>>

(* putScreen: const interview = await this.interviews.get(interviewId);    *)
(* without the interview the call goes on in addScreenToInterview          *)
putScreenGet(t) ==
  /\ storeCalls[t].pc = "putScreen.get"
  /\ storeCalls' = [storeCalls EXCEPT ![t] =
       IF IsDefined(Get(interviews, InterviewId))
       THEN [@ EXCEPT !.pc = "putScreen.put"]
       ELSE [@ EXCEPT !.pc = "addScreenToInterview.get",
                      !.mutualCalls = @ + 1]]
  /\ UNCHANGED <<tables, editorVars, runnerVars>>

(* putScreen: await this.interviewScreens.put(screen); return screen *)
putScreenPut(t) ==
  /\ storeCalls[t].pc = "putScreen.put"
  /\ interviewScreens' = Put(interviewScreens, ValueOf(storeCalls[t].screen).id,
                             ValueOf(storeCalls[t].screen))
  /\ storeCalls' = [storeCalls EXCEPT ![t] =
       [Finished(@, "stored") EXCEPT !.wrote = TRUE]]
  /\ UNCHANGED <<interviews, interviewScreenEntries, conditionalActions,
                 editorVars, runnerVars>>

(* a mutant of addScreenToInterview that takes a missing interview for an  *)
(* empty one instead of throwing                                           *)
addScreenToInterviewUnchecked(t) ==
  /\ storeCalls[t].pc = "addScreenToInterview.get"
  /\ LET interview == Get(interviews, InterviewId)
         found == IF IsDefined(interview) THEN ValueOf(interview) ELSE NewInterview
     IN storeCalls' = [storeCalls EXCEPT ![t] =
          [@ EXCEPT !.interview = Def(addScreen(found, ValueOf(storeCalls[t].screen))),
                    !.pc = "addScreenToInterview.put"]]
  /\ UNCHANGED <<tables, editorVars, runnerVars>>

(* a mutant of addScreenToInterview that hands a missing interview back to *)
(* putScreen instead of throwing                                           *)
addScreenToInterviewRetrying(t) ==
  /\ storeCalls[t].pc = "addScreenToInterview.get"
  /\ LET interview == Get(interviews, InterviewId)
     IN storeCalls' = [storeCalls EXCEPT ![t] =
          IF ~IsDefined(interview)
          THEN [@ EXCEPT !.pc = "putScreen.get"]
          ELSE [@ EXCEPT !.interview = Def(addScreen(ValueOf(interview),
                                                     ValueOf(storeCalls[t].screen))),
                         !.pc = "addScreenToInterview.put"]]
  /\ UNCHANGED <<tables, editorVars, runnerVars>>

(* addScreenToInterview: const interview = await this.getInterview(id);    *)
(* invariant(interview, ...) throws when there is none; otherwise          *)
(* newInterview = Interview.addScreen(interview, interviewScreen)          *)
addScreenToInterview(t) ==
  /\ storeCalls[t].pc = "addScreenToInterview.get"
  /\ LET interview == Get(interviews, InterviewId)
     IN storeCalls' = [storeCalls EXCEPT ![t] =
          IF ~IsDefined(interview)
          THEN Finished(@, "thrown")
          ELSE [@ EXCEPT !.interview = Def(addScreen(ValueOf(interview),
                                                     ValueOf(storeCalls[t].screen))),
                         !.pc = "addScreenToInterview.put"]]
  /\ UNCHANGED <<tables, editorVars, runnerVars>>

(* addScreenToInterview: Promise.all([this.putInterview(newInterview),     *)
(* this.putScreen(interviewId, interviewScreen)]): the put of the          *)
(* interview is requested first, the get of putScreen second; the model    *)
(* lets the requests of other calls run between the two                    *)
addScreenToInterviewPut(t) ==
  /\ storeCalls[t].pc = "addScreenToInterview.put"
  /\ interviews' = Put(interviews, InterviewId, ValueOf(storeCalls[t].interview))
  /\ storeCalls' = Seen([storeCalls EXCEPT ![t] =
       [@ EXCEPT !.pc = "putScreen.get", !.mutualCalls = @ + 1,
                 !.wrote = TRUE]], t)
  /\ UNCHANGED <<interviewScreens, interviewScreenEntries, conditionalActions,
                 editorVars, runnerVars>>

(* deleteInterview: const interview = await this.getInterview(interviewId) *)
deleteInterviewGet(t) ==
  /\ storeCalls[t].pc = "deleteInterview.get"
  /\ storeCalls' = [storeCalls EXCEPT ![t] =
       IF IsDefined(Get(interviews, InterviewId))
       THEN [@ EXCEPT !.interview = Get(interviews, InterviewId),
                      !.pc = "deleteInterview.getScreens"]
       ELSE Finished(@, "absent")]
  /\ UNCHANGED <<tables, editorVars, runnerVars>>

(* the four deletions of deleteInterview, by their tables *)
DeleteRequests ==
  {"conditionalActions", "interviewScreenEntries", "interviewScreens",
   "interviews"}

(* deleteInterview: const screens = await this.getScreens(screenIds);      *)
(* entryIds and actionIds are those of the screens that were read          *)
deleteInterviewGetScreens(t) ==
  /\ storeCalls[t].pc = "deleteInterview.getScreens"
  /\ LET screenIds == Range(ValueOf(storeCalls[t].interview).screens)
         found == getScreens(screenIds)
     IN storeCalls' = [storeCalls EXCEPT ![t] =
          [@ EXCEPT !.entryIds = UNION {s.entries : s \in found},
                    !.actionIds = UNION {s.actions : s \in found},
                    !.pending = DeleteRequests,
                    !.pc = "deleteInterview.bulkDelete"]]
  /\ UNCHANGED <<tables, editorVars, runnerVars>>

(* deleteInterview: await Promise.all of the four deletions.  Each is a   *)
(* request on a table of its own, served on its own; the call ends when    *)
(* the last of them has been served                                        *)
deleteInterviewBulkDelete(t, table) ==
  /\ storeCalls[t].pc = "deleteInterview.bulkDelete"
  /\ table \in storeCalls[t].pending
  /\ conditionalActions' =
       IF table = "conditionalActions"
       THEN conditionalActions \ storeCalls[t].actionIds
       ELSE conditionalActions
  /\ interviewScreenEntries' =
       IF table = "interviewScreenEntries"
       THEN interviewScreenEntries \ storeCalls[t].entryIds
       ELSE interviewScreenEntries
  /\ interviewScreens' =
       IF table = "interviewScreens"
       THEN BulkDelete(interviewScreens,
                       Range(ValueOf(storeCalls[t].interview).screens))
       ELSE interviewScreens
  /\ interviews' =
       IF table = "interviews"
       THEN BulkDelete(interviews, {InterviewId})
       ELSE interviews
  /\ storeCalls' = [storeCalls EXCEPT ![t] =
       IF @.pending = {table}
       THEN [Finished(@, "deleted") EXCEPT !.pending = {}]
       ELSE [@ EXCEPT !.pending = @ \ {table}]]
  /\ UNCHANGED <<editorVars, runnerVars>>

(* the interviews a caller may put: the interview with some of its screens *)
PutInterviews == {[id |-> InterviewId, screens |-> ss] : ss \in {<<>>, <<"s1">>}}

StoreOps ==
  {"createInterview", "putInterview", "putScreen", "addScreenToInterview",
   "deleteInterview"}

StoreStep ==
  \E t \in StoreCalls :
    \/ createInterview(t)
    \/ putInterview(t)
    \/ putScreenGet(t)
    \/ putScreenPut(t)
    \/ addScreenToInterview(t)
    \/ addScreenToInterviewPut(t)
    \/ deleteInterviewGet(t)
    \/ deleteInterviewGetScreens(t)
    \/ \E table \in DeleteRequests : deleteInterviewBulkDelete(t, table)

NextStore ==
  \/ \E t \in StoreCalls, op \in StoreOps, s \in StoreScreenIds,
        interview \in PutInterviews :
       StartCall(t, op, ScreenOfStore(s), interview)
  \/ StoreStep

(* no store: the runner does not use it *)
NoStore ==
  /\ interviews = [i \in {} |-> NewInterview]
  /\ interviewScreens = [s \in {} |-> ScreenOfStore(s)]
  /\ interviewScreenEntries = {}
  /\ conditionalActions = {}
  /\ storeCalls = [t \in StoreCalls |-> IdleCall]

(* the store holding the interview with the given screens and all that     *)
(* belongs to them                                                         *)
StoreOf(screenIds) ==
  /\ interviews = [i \in {InterviewId} |->
                     [id |-> InterviewId, screens |-> screenIds]]
  /\ interviewScreens = [s \in Range(screenIds) |-> ScreenOfStore(s)]
  /\ interviewScreenEntries =
       UNION {ScreenOfStore(s).entries : s \in Range(screenIds)}
  /\ conditionalActions =
       UNION {ScreenOfStore(s).actions : s \in Range(screenIds)}
  /\ storeCalls = [t \in StoreCalls |-> IdleCall]

(***************************************************************************)
(* SingleInterviewView/OnSubmitCard: the editor of the submission actions  *)
(* of an interview.  onInterviewChange stores the interview it is given;   *)
(* the model keeps interview.submissionActions in editedActions.  An       *)
(* action read from the backend has an id, an action made by               *)
(* SubmissionAction.create has a tempId, the next value of uuidv4.         *)
(***************************************************************************)
ActionTypes == {EDIT_ROW, INSERT_ROW}

(* SubmissionAction.create(values), uuid the value of uuidv4() *)
create(values, uuid) ==
  [order |-> values.order,
   interviewId |-> values.interviewId,
   fieldMappings |-> <<>>,
   tempId |-> uuid,
   config |-> [type |-> values.type, payload |-> <<>>]]

(* an action as read from the backend *)
SavedAction(id, type) ==
  [id |-> id,
   order |-> id,
   interviewId |-> InterviewId,
   fieldMappings |-> <<>>,
   config |-> [type |-> type, payload |-> <<>>]]

(* key={'id' in action ? action.id : action.tempId} *)
KeyOf(action) ==
  IF "id" \in DOMAIN action
  THEN [id |-> action.id]
  ELSE [tempId |-> action.tempId]

(* array.filter((_, j) => j !== i) *)
RemoveAt(s, i) ==
  [j \in 1..(Len(s) - 1) |-> IF j < i THEN s[j] ELSE s[j + 1]]

(* onAddClick *)
onAddClick ==
  /\ uuidCount < MaxUuids
  /\ uuidCount' = uuidCount + 1
  /\ editedActions' =
       editedActions \o
         <<create([interviewId |-> InterviewId,
                   order |-> Len(editedActions) + 1,
                   type |-> EDIT_ROW], uuidCount + 1)>>
  /\ UNCHANGED <<storeVars, runnerVars>>

(* onActionChange(actionToReplace, newAction), the action at index i being *)
(* the one that is identical to actionToReplace                            *)
onActionChange(i, newAction) ==
  editedActions' = [editedActions EXCEPT ![i] = newAction]

(* onActionRemove(actionToRemove), the action at index i *)
onActionRemove(i) ==
  /\ i \in 1..Len(editedActions)
  /\ editedActions' = RemoveAt(editedActions, i)
  /\ UNCHANGED <<uuidCount, storeVars, runnerVars>>

(* onChange of the action type Dropdown of the action at index i *)
onActionTypeChange(i, actionType) ==
  /\ i \in 1..Len(editedActions)
  /\ uuidCount < MaxUuids
  /\ uuidCount' = uuidCount + 1
  /\ onActionChange(i, create([type |-> actionType,
                               order |-> editedActions[i].order,
                               interviewId |-> editedActions[i].interviewId],
                              uuidCount + 1))
  /\ UNCHANGED <<storeVars, runnerVars>>

(* InsertRowActionBlock: the tables of the Airtable settings of the       *)
(* interview, each with the base it belongs to (tableToBaseIdLookup)       *)
tableToBaseIdLookup == [tableId \in {"t1", "t2"} |-> "b1"]

(* { ...payload, baseTarget, tableTarget } *)
WithTarget(payload, baseTarget, tableTarget) ==
  [k \in DOMAIN payload \cup {"baseTarget", "tableTarget"} |->
     IF k = "baseTarget" THEN baseTarget
     ELSE IF k = "tableTarget" THEN tableTarget
     ELSE payload[k]]

(* the field mappings FieldToQuestionBlock may hand back *)
EditedFieldMappings ==
  {[f \in {} |-> <<>>],
   [f \in {"f1"} |-> [entryId |-> "e1", responseFieldKey |-> "name"]]}

(* InsertRowActionBlock.onChangeTableTarget(tableId), of the block of the  *)
(* action at index i                                                       *)
onChangeTableTarget(i, tableId) ==
  /\ i \in 1..Len(editedActions)
  /\ editedActions[i].config.type = INSERT_ROW
  /\ LET action == editedActions[i]
         newConfig == [type |-> action.config.type,
                       payload |-> WithTarget(action.config.payload,
                                              tableToBaseIdLookup[tableId],
                                              tableId)]
     IN  onActionChange(i, [action EXCEPT !.config = newConfig])
  /\ UNCHANGED <<uuidCount, storeVars, runnerVars>>

(* InsertRowActionBlock.onFieldMappingChange(fieldMappings); the block of  *)
(* the field mappings is shown once a table is selected                    *)
onFieldMappingChange(i, fieldMappings) ==
  /\ i \in 1..Len(editedActions)
  /\ editedActions[i].config.type = INSERT_ROW
  /\ "tableTarget" \in DOMAIN editedActions[i].config.payload
  /\ onActionChange(i, [editedActions[i] EXCEPT !.fieldMappings = fieldMappings])
  /\ UNCHANGED <<uuidCount, storeVars, runnerVars>>

NextEditor ==
  \/ onAddClick
  \/ \E i \in 1..(MaxSavedActions + MaxUuids),
         tableId \in DOMAIN tableToBaseIdLookup :
       onChangeTableTarget(i, tableId)
  \/ \E i \in 1..(MaxSavedActions + MaxUuids),
         fieldMappings \in EditedFieldMappings :
       onFieldMappingChange(i, fieldMappings)
  \/ \E i \in 1..(MaxSavedActions + MaxUuids) : onActionRemove(i)
  \/ \E i \in 1..(MaxSavedActions + MaxUuids), actionType \in ActionTypes :
       onActionTypeChange(i, actionType)

(* no editor open *)
NoEditor ==
  /\ editedActions = <<>>
  /\ uuidCount = 0

(***************************************************************************)
(* Configurations.                                                         *)
(***************************************************************************)
Orders == {Undefined} \cup {Def(o) : o \in 1..MaxOrder}

ScreenRecords(i) ==
  [id : {i}, isInStartingState : BOOLEAN, startingStateOrder : Orders]

(* every list of the screens 1..NumScreens, in the order of their ids *)
AllScreenLists ==
  {s \in [1..NumScreens -> UNION {ScreenRecords(i) : i \in ScreenIds}] :
     \A i \in ScreenIds : s[i].id = i}

(* only the first screen is a starting screen *)
DefaultScreens ==
  [i \in 1..NumScreens |->
     [id |-> i, isInStartingState |-> (i = 1),
      startingStateOrder |-> IF i = 1 THEN Def(1) ELSE Undefined]]

Targets == {TERMINAL} \cup {Def(s) : s \in ScreenIds}

Rules ==
  [entryId : EntryIds, responseFieldKey : {"id"}, op : {"eq", "neq"},
   value : {"x"}, target : Targets]

NoRules == [s \in ScreenIds |-> <<>>]

LookupConfigs ==
  [entryId : {Undefined} \cup {Def(e) : e \in EntryIds},
   responseFieldKey : {"name", "other"},
   specialValueType : {Undefined, Def(NOW_DATE)}]

EditRowConfigs ==
  [type : {EDIT_ROW},
   payload : [entryId : EntryIds, primaryKeyField : {"id", "other"},
              baseTarget : {""}, tableTarget : {""}]]

InsertRowConfigs ==
  [type : {INSERT_ROW},
   payload : [entryId : {0}, primaryKeyField : {""},
              baseTarget : {"base"}, tableTarget : {"table"}]]

InsertNow ==
  [config |-> CHOOSE c \in InsertRowConfigs : TRUE,
   fieldMappings |-> [f \in {"f1"} |->
      [entryId |-> Undefined, responseFieldKey |-> "name",
       specialValueType |-> Def(NOW_DATE)]]]

InitRunner ==
  /\ currentScreen = Undefined
  /\ responseConsumer = Undefined
  /\ completedResponseData = Undefined
  /\ errorOnComplete = Undefined
  /\ toasts = {}
  /\ resetCounter = 1
  /\ isResetConfirmationModalOpen = FALSE
  /\ engine = IdleEngine
  /\ engineCount = 0
  /\ liveEngines = 0
  /\ sinkCalls = <<>>
  /\ effectRuns = 0
  /\ askedAfterTerminal = FALSE
  /\ completions = 0
  /\ lastSubmitted = Undefined
  /\ staleEngine = IdleEngine
  /\ staleSinkCalls = <<>>

InitRuntime ==
  /\ InitRunner
  /\ NoStore
  /\ NoEditor

(* the starting flags vary; no rules; one INSERT_ROW action *)
InitStart ==
  /\ screens \in AllScreenLists
  /\ actions = NoRules
  /\ submissionActions = <<InsertNow>>
  /\ InitRuntime

SpecStart == InitStart /\ [][Next]_vars

(* the rule lists of a screen: at most MaxRules rules *)
RuleLists == SeqsUpTo(Rules, MaxRules)

RulesOn(screenId, rules) ==
  [s \in ScreenIds |-> IF s = screenId THEN rules ELSE <<>>]

(* one rule on any screen, or a list of rules on the screen before the last *)
FlowConfigs ==
  {RulesOn(t, <<r>>) : t \in ScreenIds, r \in Rules}
  \cup {RulesOn(Len(DefaultScreens) - 1, rules) : rules \in RuleLists}

(* answering "x" on the first screen skips to the last screen *)
SkipRules ==
  RulesOn(1, << [entryId |-> 1, responseFieldKey |-> "id", op |-> "eq",
                 value |-> "x", target |-> Def(NumScreens)] >>)

(* answering "" on the last screen goes back to the first screen *)
LoopRules ==
  RulesOn(NumScreens,
          << [entryId |-> NumScreens, responseFieldKey |-> "id", op |-> "neq",
              value |-> "x", target |-> Def(1)] >>)

(* field mappings: none, one field, or a second field with the timestamp *)
FieldMappingsConfigs ==
  {[f \in {} |-> Undefined]}
  \cup {[f \in {"f1"} |-> c] : c \in LookupConfigs}
  \cup {[f \in FieldIds |-> IF f = "f1" THEN c
                            ELSE [entryId |-> Undefined,
                                  responseFieldKey |-> "name",
                                  specialValueType |-> Def(NOW_DATE)]] :
          c \in {d \in LookupConfigs : IsDefined(d.entryId)
                                       /\ ~IsDefined(d.specialValueType)}}

SubmissionActionConfigs ==
  [config : EditRowConfigs \cup InsertRowConfigs,
   fieldMappings : FieldMappingsConfigs]

(* a few actions to combine with others in one list *)
EditSecond ==
  [config |-> [type |-> EDIT_ROW,
               payload |-> [entryId |-> 2, primaryKeyField |-> "id",
                            baseTarget |-> "", tableTarget |-> ""]],
   fieldMappings |-> [f \in {"f1"} |->
      [entryId |-> Def(1), responseFieldKey |-> "name",
       specialValueType |-> Undefined]]]

InsertFirst ==
  [config |-> CHOOSE c \in InsertRowConfigs : TRUE,
   fieldMappings |-> [f \in {"f1"} |->
      [entryId |-> Def(1), responseFieldKey |-> "name",
       specialValueType |-> Undefined]]]

SiblingActions == {EditSecond, InsertFirst, InsertNow}

SubmissionLists ==
  {<<a>> : a \in SubmissionActionConfigs}
  \cup {s \in SeqsUpTo(SiblingActions, MaxSubmissionActions) : Len(s) > 1}

(* the rules vary; the first screen starts; one INSERT_ROW action *)
InitFlow ==
  /\ screens = DefaultScreens
  /\ actions \in FlowConfigs
  /\ submissionActions = <<InsertNow>>
  /\ InitRuntime

SpecFlow == InitFlow /\ [][Next]_vars

(* the submission actions vary; the first screen starts; one skipping rule *)
InitSubmit ==
  /\ screens = DefaultScreens
  /\ actions = SkipRules
  /\ submissionActions \in SubmissionLists
  /\ InitRuntime

SpecSubmit == InitSubmit /\ [][Next]_vars

(* a few configurations of every kind *)
TwoStartingScreens ==
  [i \in 1..NumScreens |->
     [id |-> i, isInStartingState |-> (i <= 2),
      startingStateOrder |-> IF i <= 2 THEN Def(i) ELSE Undefined]]

Init ==
  /\ screens \in {DefaultScreens, TwoStartingScreens}
  /\ actions \in {NoRules, SkipRules, LoopRules}
  /\ submissionActions \in {<<>>, <<InsertNow>>, <<EditSecond, InsertFirst>>,
                            <<InsertFirst, EditSecond>>}
  /\ InitRuntime

Spec == Init /\ [][Next]_vars

(* an id that no supplied screen or entry has *)
MissingId == NumScreens + 1

(* a rule on the first screen that refers to a missing entry *)
RuleOnMissingEntry ==
  RulesOn(1, << [entryId |-> MissingId, responseFieldKey |-> "id", op |-> "eq",
                 value |-> "x", target |-> TERMINAL] >>)

(* a rule on the first screen that goes to a missing screen *)
RuleToMissingScreen ==
  RulesOn(1, << [entryId |-> 1, responseFieldKey |-> "id", op |-> "eq",
                 value |-> "x", target |-> Def(MissingId)] >>)

EditMissing ==
  [EditSecond EXCEPT !.config.payload.entryId = MissingId]

InsertFromMissing ==
  [InsertFirst EXCEPT !.fieldMappings["f1"].entryId = Def(MissingId)]

(* configurations with and without references to missing entries or screens *)
InitConfig ==
  /\ screens = DefaultScreens
  /\ actions \in {NoRules, SkipRules, RuleOnMissingEntry, RuleToMissingScreen}
  /\ submissionActions \in {<<InsertNow>>, <<EditSecond>>, <<EditMissing>>,
                            <<InsertFromMissing>>, <<InsertNow, EditMissing>>}
  /\ InitRuntime

SpecConfig == InitConfig /\ [][Next]_vars

SpecStale == Init /\ [][NextStale]_vars

(* the runner before its effect has run, on the default interview *)
InitRunnerOnly ==
  /\ screens = DefaultScreens
  /\ actions = NoRules
  /\ submissionActions = <<>>
  /\ InitRunner

(* the store, empty or holding the interview with none or one of its       *)
(* screens, and up to MaxStoreCalls calls of its operations                *)
InitStore ==
  /\ InitRunnerOnly
  /\ NoEditor
  /\ \/ NoStore
     \/ \E screenIds \in {<<>>, <<"s1">>} : StoreOf(screenIds)

SpecStore == InitStore /\ [][NextStore]_vars

(* every started call of the store goes on: its requests are served *)
SpecStoreFair == SpecStore /\ WF_vars(StoreStep)

(* the editor opened on an interview with up to MaxSavedActions actions *)
InitEditor ==
  /\ InitRunnerOnly
  /\ NoStore
  /\ uuidCount = 0
  /\ \E n \in 0..MaxSavedActions :
       \E types \in [1..n -> ActionTypes] :
         editedActions = [i \in 1..n |-> SavedAction(i, types[i])]

SpecEditor == InitEditor /\ [][NextEditor]_vars

(***************************************************************************)
(* Properties.                                                             *)
(***************************************************************************)
OrderOf(i) == ValueOf(screens[i].startingStateOrder)

(* the screens flagged isInStartingState, by position *)
FlaggedScreens == {i \in 1..Len(screens) : screens[i].isInStartingState}

(* the flagged screens that have a startingStateOrder *)
QualifiedScreens ==
  {i \in FlaggedScreens : IsDefined(screens[i].startingStateOrder)}

(* the effect has run and nothing has been submitted to the engine yet *)
AtStart == effectRuns > 0 /\ engine.responseData = EmptyResponseData

(* the state the engine is in: the screen it awaits a response for, or TERMINAL *)
StateOfEngine ==
  IF engine.status = "terminal" THEN TERMINAL ELSE engine.screen

Min(S) == CHOOSE i \in S : \A j \in S : i <= j

(* the positions of the rules of a screen that match the response data *)
MatchingRules(screenId, responseData) ==
  {i \in 1..Len(actions[screenId]) :
     matches(actions[screenId][i], responseData)}

(* the screen that follows in the supplied order, TERMINAL after the last *)
SequentialSuccessor(screenId) ==
  LET i == CHOOSE k \in 1..Len(screens) : screens[k].id = screenId
  IN  IF i = Len(screens) THEN TERMINAL ELSE Def(screens[i + 1].id)

IsAnswered(responseData, entryId) ==
  ResponseKeyOf(entryId) \in DOMAIN responseData

(* C1 (as claimed): whenever some screen has isInStartingState = true, the
   run starts at the screen of highest startingStateOrder among them. *)
C1_StartsWheneverFlagged ==
  (AtStart /\ FlaggedScreens # {}) =>
    /\ engine.status = "awaiting"
    /\ \E i \in QualifiedScreens :
         /\ engine.screen = Def(screens[i].id)
         /\ \A j \in QualifiedScreens : OrderOf(j) <= OrderOf(i)

(* C1 (amended): whenever some screen has isInStartingState = true and a
   startingStateOrder, the run starts at the screen of highest
   startingStateOrder among those, the earliest supplied one on a tie. *)
C1_StartsAtHighestOrder ==
  (AtStart /\ QualifiedScreens # {}) =>
    /\ engine.status = "awaiting"
    /\ \E i \in QualifiedScreens :
         /\ engine.screen = Def(screens[i].id)
         /\ \A j \in QualifiedScreens :
              \/ OrderOf(j) < OrderOf(i)
              \/ (OrderOf(j) = OrderOf(i) /\ i <= j)

(* two starting screens, the later supplied one of higher order, and the run
   has started there *)
C1_Witness ==
  /\ AtStart
  /\ \E i, j \in QualifiedScreens :
       /\ i < j
       /\ OrderOf(i) < OrderOf(j)
       /\ engine.status = "awaiting"
       /\ engine.screen = Def(screens[j].id)

(* C2: after a submission on screen S the engine is in the state named by
   the first rule of S, in source order, that matches the accumulator. *)
C2_FirstMatchWins ==
  IsDefined(lastSubmitted) =>
    LET m == MatchingRules(ValueOf(lastSubmitted), engine.responseData)
    IN  m # {} =>
          StateOfEngine = actions[ValueOf(lastSubmitted)][Min(m)].target

(* two rules of different targets matched and the earlier one was taken *)
C2_Witness ==
  /\ IsDefined(lastSubmitted)
  /\ LET S == ValueOf(lastSubmitted)
         m == MatchingRules(S, engine.responseData)
     IN  \E i, j \in m :
           /\ i < j
           /\ actions[S][i].target # actions[S][j].target
           /\ StateOfEngine = actions[S][i].target

(* C3: after a submission on screen S where no rule of S matches, the engine
   is at the screen that follows S in the supplied order, or TERMINAL when S
   is the last one. *)
C3_DefaultFallback ==
  (/\ IsDefined(lastSubmitted)
   /\ MatchingRules(ValueOf(lastSubmitted), engine.responseData) = {}) =>
    StateOfEngine = SequentialSuccessor(ValueOf(lastSubmitted))

(* the last screen had a rule, it did not match, and the run ended *)
C3_Witness ==
  /\ IsDefined(lastSubmitted)
  /\ ValueOf(lastSubmitted) = screens[Len(screens)].id
  /\ actions[ValueOf(lastSubmitted)] # <<>>
  /\ MatchingRules(ValueOf(lastSubmitted), engine.responseData) = {}
  /\ engine.status = "terminal"

(* C4: a condition on an entry without a recorded answer does not match, and
   the transition is the one the rules on answered entries and the
   sequential fallback give. *)
C4_UnansweredNeverMatches ==
  /\ \A r \in Rules :
       ~IsAnswered(engine.responseData, r.entryId) =>
         ~matches(r, engine.responseData)
  /\ IsDefined(lastSubmitted) =>
       LET S == ValueOf(lastSubmitted)
           OnAnswered(r) == IsAnswered(engine.responseData, r.entryId)
           rules == SelectSeq(actions[S], OnAnswered)
           m == {i \in 1..Len(rules) : matches(rules[i], engine.responseData)}
       IN  StateOfEngine = IF m = {} THEN SequentialSuccessor(S)
                           ELSE rules[Min(m)].target

(* the first rule of the submitted screen asks for "differs from" on an
   unanswered entry and its target was not taken *)
C4_Witness ==
  /\ IsDefined(lastSubmitted)
  /\ LET S == ValueOf(lastSubmitted)
     IN  /\ actions[S] # <<>>
         /\ actions[S][1].op = "neq"
         /\ ~IsAnswered(engine.responseData, actions[S][1].entryId)
         /\ StateOfEngine # actions[S][1].target

(* the sink calls as they were dispatched, whatever became of them *)
DispatchedCalls ==
  [i \in 1..Len(sinkCalls) |-> [sinkCalls[i] EXCEPT !.status = "pending"]]

(* the sink calls dispatched for the submission action at position a *)
CallsOf(a) == {i \in 1..Len(sinkCalls) : sinkCalls[i].action = a}

(* C5: once the run has completed, the moderator is not asked again, there
   is no second completion callback, and the view shows no question screen. *)
C5_TerminalIsAbsorbing ==
  /\ ~askedAfterTerminal
  /\ completions <= 1
  /\ ShowsCompletionScreen => ~ShowsRunnerScreen

(* C6: the record sink is called only by the completion callback, which runs
   once, when the engine reaches TERMINAL, with the accumulator of the run;
   the submission actions are resolved against that data. *)
C6_ResolvedOnlyOnTermination ==
  /\ completions <= 1
  /\ ShowsCompletionScreen <=> completions = 1
  /\ ~ShowsCompletionScreen => sinkCalls = <<>>
  /\ engine.status = "terminal" =>
       completedResponseData = Def(engine.responseData)
  /\ ShowsCompletionScreen =>
       \E clock \in Clocks :
         DispatchedCalls = onInterviewComplete(ValueOf(completedResponseData),
                                               clock)

(* a run of at least two answers has completed and a sink call was made *)
C6_Witness ==
  /\ engine.status = "terminal"
  /\ Cardinality(DOMAIN engine.responseData) >= 2
  /\ completions = 1
  /\ sinkCalls # <<>>

(* a field mapping that resolves to the empty string or to nothing *)
ResolvesToNothing(entryLookupConfig, responseData) ==
  IF IsDefined(entryLookupConfig.entryId)
  THEN \/ ~IsAnswered(responseData, ValueOf(entryLookupConfig.entryId))
       \/ ~Truthy(getResponseValue(
                    responseData,
                    ResponseKeyOf(ValueOf(entryLookupConfig.entryId)),
                    entryLookupConfig.responseFieldKey))
  ELSE ~IsDefined(entryLookupConfig.specialValueType)

(* C7: in every payload sent to the sink, a field whose mapping resolves to
   the empty string or to nothing is absent, and every field present maps to
   a non-empty value. *)
C7_EmptyFieldsDropped ==
  \A i \in 1..Len(sinkCalls) :
    LET call == sinkCalls[i]
        fieldMappings == submissionActions[call.action].fieldMappings
        responseData == ValueOf(completedResponseData)
    IN  /\ DOMAIN call.fields \subseteq DOMAIN fieldMappings
        /\ \A f \in DOMAIN call.fields : call.fields[f] # ""
        /\ \A f \in DOMAIN fieldMappings :
             ResolvesToNothing(fieldMappings[f], responseData) =>
               f \notin DOMAIN call.fields

(* an update was sent without a field whose entry was answered, and with
   another field *)
C7_Witness ==
  \E i \in 1..Len(sinkCalls) :
    LET call == sinkCalls[i]
        fieldMappings == submissionActions[call.action].fieldMappings
    IN  /\ call.op = "updateRecord"
        /\ \E f \in DOMAIN fieldMappings :
             /\ f \notin DOMAIN call.fields
             /\ IsDefined(fieldMappings[f].entryId)
             /\ IsAnswered(ValueOf(completedResponseData),
                           ValueOf(fieldMappings[f].entryId))
        /\ DOMAIN call.fields # {}

(* an EDIT_ROW action whose entry has no answer or whose answer holds no
   record id under primaryKeyField *)
EditRowWithoutTarget(a, responseData) ==
  LET actionPayload == submissionActions[a].config.payload
  IN  /\ submissionActions[a].config.type = EDIT_ROW
      /\ \/ ~IsAnswered(responseData, actionPayload.entryId)
         \/ ~Truthy(getResponseValue(responseData,
                                     ResponseKeyOf(actionPayload.entryId),
                                     actionPayload.primaryKeyField))

(* C8: for an EDIT_ROW action whose entry has no answer, or no record id
   under primaryKeyField, no sink call is made and no error is reported. *)
C8_EditRowSkipped ==
  ShowsCompletionScreen =>
    \A a \in 1..Len(submissionActions) :
      EditRowWithoutTarget(a, ValueOf(completedResponseData)) =>
        /\ CallsOf(a) = {}
        /\ errorOnComplete # Def([action |-> a])

(* a run completed without an answer for the Airtable entry of an EDIT_ROW
   action, and nothing was sent for it *)
C8_Witness ==
  /\ ShowsCompletionScreen
  /\ \E a \in 1..Len(submissionActions) :
       /\ submissionActions[a].config.type = EDIT_ROW
       /\ Entry(submissionActions[a].config.payload.entryId).responseType = AIRTABLE
       /\ ~IsAnswered(ValueOf(completedResponseData),
                      submissionActions[a].config.payload.entryId)
       /\ CallsOf(a) = {}

(* C9: for every INSERT_ROW action of a completed run exactly one call is
   made, a createRecord on (baseTarget, tableTarget). *)
C9_InsertRowAlwaysCreates ==
  ShowsCompletionScreen =>
    \A a \in 1..Len(submissionActions) :
      submissionActions[a].config.type = INSERT_ROW =>
        /\ Cardinality(CallsOf(a)) = 1
        /\ \A i \in CallsOf(a) :
             /\ sinkCalls[i].op = "createRecord"
             /\ sinkCalls[i].baseId = submissionActions[a].config.payload.baseTarget
             /\ sinkCalls[i].tableId = submissionActions[a].config.payload.tableTarget

(* a record was created with an empty payload: every field was dropped *)
C9_Witness ==
  \E i \in 1..Len(sinkCalls) :
    /\ sinkCalls[i].op = "createRecord"
    /\ DOMAIN sinkCalls[i].fields = {}
    /\ DOMAIN submissionActions[sinkCalls[i].action].fieldMappings # {}

(* an action whose sink call is due: an INSERT_ROW, or an EDIT_ROW on an
   answered Airtable entry with a record id *)
IsEligible(a, responseData) ==
  \/ submissionActions[a].config.type = INSERT_ROW
  \/ /\ submissionActions[a].config.type = EDIT_ROW
     /\ Entry(submissionActions[a].config.payload.entryId).responseType = AIRTABLE
     /\ ~EditRowWithoutTarget(a, responseData)

(* C10: the sink call of every eligible action has been dispatched and stays
   dispatched, whatever the outcome of the calls of the other actions. *)
C10_IndependentFailure ==
  ShowsCompletionScreen =>
    \A a \in 1..Len(submissionActions) :
      IsEligible(a, ValueOf(completedResponseData)) <=> CallsOf(a) # {}

(* a call has failed and the call of a later action went through *)
C10_Witness ==
  \E i, j \in 1..Len(sinkCalls) :
    /\ i < j
    /\ sinkCalls[i].status = "failed"
    /\ sinkCalls[j].status = "ok"

(* C11: after a reset the view has no current screen, no completed response
   data, no completion error and no sink call, its engine has an empty
   accumulator, and the first screen asked is the initial screen, whatever
   the progress of the run that was reset. *)
C11_ResetProperty ==
  resetCounter > 1 =>
    /\ effectRuns = 0 =>
         /\ engine = IdleEngine
         /\ currentScreen = Undefined
         /\ responseConsumer = Undefined
         /\ completedResponseData = Undefined
         /\ errorOnComplete = Undefined
         /\ sinkCalls = <<>>
    /\ (effectRuns > 0 /\ ~IsDefined(lastSubmitted)) =>
         /\ engine.responseData = EmptyResponseData
         /\ IsDefined(InitialScreen) =>
              /\ engine.status = "awaiting"
              /\ engine.screen = InitialScreen
              /\ currentScreen = InitialScreen

(* a run with recorded answers was reset and the new run awaits the answers
   of the initial screen with an empty accumulator *)
C11_Witness ==
  /\ resetCounter > 1
  /\ DOMAIN staleEngine.responseData # {}
  /\ effectRuns > 0
  /\ engine.status = "awaiting"
  /\ engine.screen = InitialScreen
  /\ engine.responseData = EmptyResponseData
  /\ ShowsRunnerScreen

(* C12: a submit through the response consumer of a run that was reset
   changes nothing of the new run and leads to no completion callback and
   no sink call. *)
C12_StaleSubmitIgnored ==
  [][staleEngine' # staleEngine /\ resetCounter' = resetCounter =>
       /\ UNCHANGED <<engine, viewState, sinkCalls, completions>>
       /\ staleEngine'.status # "terminal"
       /\ staleSinkCalls' = staleSinkCalls]_vars

(* C13: the view never has more than one engine awaiting a response, and
   while a question screen is shown exactly one engine awaits its answers,
   also after the effect has run again on a change of its dependencies. *)
C13_OneLiveEngine ==
  /\ liveEngines <= 1
  /\ ShowsRunnerScreen => liveEngines = 1

(* the responseKeys of the entries of a screen *)
KeysOfScreen(screenId) ==
  {EntriesOfScreen(screenId)[i].responseKey :
     i \in 1..Len(EntriesOfScreen(screenId))}

(* C14: a submission to an engine never removes a recorded responseKey; it
   adds or replaces exactly the keys of the entries of the submitted screen
   and leaves the answer of every other key as it was. *)
C14_AppendOverwriteOnly ==
  [][(/\ engine.status = "awaiting"
      /\ engine' # engine
      /\ engineCount' = engineCount
      /\ resetCounter' = resetCounter) =>
       LET keys == KeysOfScreen(ValueOf(engine.screen))
           before == engine.responseData
           after == engine'.responseData
       IN  /\ DOMAIN before \subseteq DOMAIN after
           /\ DOMAIN after = DOMAIN before \cup keys
           /\ \A k \in DOMAIN before \ keys : after[k] = before[k]]_vars

(* the first screen was submitted a second time, after another screen: its
   answer was replaced and the answer of the other screen is still there *)
C14_Witness ==
  /\ InitialScreen = Def(1)
  /\ lastSubmitted = Def(1)
  /\ \E e \in EntryIds \ {1} : IsAnswered(engine.responseData, e)
  /\ IsAnswered(engine.responseData, 1)

(* the configuration refers to an entry or a screen that was not supplied *)
HasDanglingReference ==
  \/ \E s \in DOMAIN actions : \E i \in 1..Len(actions[s]) :
       \/ ~\E k \in 1..Len(screens) : actions[s][i].entryId = screens[k].id
       \/ /\ actions[s][i].target # TERMINAL
          /\ ~\E k \in 1..Len(screens) :
                actions[s][i].target = Def(screens[k].id)
  \/ \E a \in 1..Len(submissionActions) :
       \/ /\ submissionActions[a].config.type = EDIT_ROW
          /\ ~\E k \in 1..Len(screens) :
                submissionActions[a].config.payload.entryId = screens[k].id
       \/ \E f \in DOMAIN submissionActions[a].fieldMappings :
            /\ IsDefined(submissionActions[a].fieldMappings[f].entryId)
            /\ ~\E k \in 1..Len(screens) :
                  submissionActions[a].fieldMappings[f].entryId = Def(screens[k].id)

(* C15: with a conditional action or a submission action that refers to a
   missing entry or screen the flow never starts: no engine awaits a
   response, no screen is presented, nothing completes and no sink call is
   made; once the effect has run the construction has failed. *)
C15_FailFastOnDanglingReference ==
  HasDanglingReference =>
    /\ engine.status \in {"idle", "failed"}
    /\ effectRuns > 0 => engine.status = "failed"
    /\ currentScreen = Undefined
    /\ responseConsumer = Undefined
    /\ ~ShowsRunnerScreen
    /\ ~ShowsCompletionScreen
    /\ sinkCalls = <<>>
    /\ completions = 0

(* the interview has a starting screen, a submission action refers to a
   missing entry, and the construction has failed *)
C15_Witness ==
  /\ IsDefined(InitialScreen)
  /\ \E a \in 1..Len(submissionActions) :
       ~ValidSubmissionAction(submissionActions[a])
  /\ effectRuns > 0
  /\ engine.status = "failed"

(* C16: when no screen qualifies as a starting screen the run does not
   start: once the effect has run the construction has failed, no engine
   awaits a response and no screen is presented. *)
C16_NoValidEntryPoint ==
  QualifiedScreens = {} =>
    /\ engine.status \in {"idle", "failed"}
    /\ effectRuns > 0 => engine.status = "failed"
    /\ currentScreen = Undefined
    /\ responseConsumer = Undefined
    /\ ~ShowsRunnerScreen
    /\ ~ShowsCompletionScreen
    /\ liveEngines = 0

(* screens are flagged as starting screens but none has an order, and the
   start of the run has failed *)
C16_Witness ==
  /\ QualifiedScreens = {}
  /\ FlaggedScreens # {}
  /\ ValidConfiguration
  /\ effectRuns > 0
  /\ engine.status = "failed"

(* C19: every failed sink call has been reported: the notice of its action
   was raised. *)
C19_EveryFailureReported ==
  \A i \in 1..Len(sinkCalls) :
    sinkCalls[i].status = "failed" => sinkCalls[i].action \in toasts

(* C20: in one run every submission action has at most one sink call, also
   after calls have failed: there are never more calls than actions and the
   completion callback has run at most once. *)
C20_NoRetry ==
  /\ \A a \in 1..Len(submissionActions) : Cardinality(CallsOf(a)) <= 1
  /\ Len(sinkCalls) <= Len(submissionActions)
  /\ completions <= 1

(* every call has settled, one of them has failed, and the failed action
   still has its one call *)
C20_Witness ==
  /\ sinkCalls # <<>>
  /\ \A i \in 1..Len(sinkCalls) : sinkCalls[i].status # "pending"
  /\ \E i \in 1..Len(sinkCalls) :
       /\ sinkCalls[i].status = "failed"
       /\ CallsOf(sinkCalls[i].action) = {i}

(* what a list of sink calls asks of the sink, whatever their order *)
RequestsOf(calls) ==
  {[op |-> calls[i].op, baseId |-> calls[i].baseId, tableId |-> calls[i].tableId,
    recordId |-> calls[i].recordId, fields |-> calls[i].fields] :
     i \in 1..Len(calls)}

(* the orders in which a list of n actions can be given *)
OrdersOf(n) ==
  {p \in [1..n -> 1..n] : \A i, j \in 1..n : p[i] = p[j] => i = j}

(* C21: for the response data of the completed run, the submission actions
   given in any other order lead to the same set of sink requests as the
   calls that were issued, the clock giving the readings it gave in the
   run. *)
C21_NoOrderingDependency ==
  ShowsCompletionScreen =>
    \A p \in OrdersOf(Len(submissionActions)) :
      \E clock \in Clocks :
        RequestsOf(HandleFrom([i \in 1..Len(submissionActions) |->
                                 submissionActions[p[i]]],
                              1, ValueOf(completedResponseData), clock))
          = RequestsOf(sinkCalls)

(* an update and a creation were issued for two actions of one run *)
C21_Witness ==
  /\ ShowsCompletionScreen
  /\ Len(submissionActions) >= 2
  /\ \E i, j \in 1..Len(sinkCalls) :
       /\ sinkCalls[i].op = "updateRecord"
       /\ sinkCalls[j].op = "createRecord"
       /\ sinkCalls[i].action # sinkCalls[j].action

(***************************************************************************)
(* C22: once deleteInterview has completed for an interview that was in    *)
(* the store, the store holds neither the interview nor any of its         *)
(* screens, screen entries or conditional actions, also when calls of      *)
(* addScreenToInterview and putScreen on the interview run interleaved     *)
(* with it.                                                                *)
(***************************************************************************)
HasDeleted(t) ==
  storeCalls[t].op = "deleteInterview" /\ storeCalls[t].result = "deleted"

HoldsNothingOfInterview ==
  /\ InterviewId \notin DOMAIN interviews
  /\ DOMAIN interviewScreens = {}
  /\ interviewScreenEntries = {}
  /\ conditionalActions = {}

(* the calls made are of deleteInterview, addScreenToInterview, putScreen *)
OnlyAddsAndDeletes ==
  \A t \in StoreCalls :
    storeCalls[t].op \in
      {"none", "deleteInterview", "addScreenToInterview", "putScreen"}

C22_DeleteLeavesNothing ==
  OnlyAddsAndDeletes /\ (\E t \in StoreCalls : HasDeleted(t)) =>
    HoldsNothingOfInterview

(***************************************************************************)
(* C23: a call of addScreenToInterview or of putScreen during which the    *)
(* interview is not in the store throws, and has written neither an        *)
(* interview nor a screen.                                                 *)
(***************************************************************************)
AddsScreen(t) == storeCalls[t].op \in {"putScreen", "addScreenToInterview"}

C23_RequiresInterview ==
  \A t \in StoreCalls :
    AddsScreen(t) /\ storeCalls[t].pc = "done" /\ storeCalls[t].absent =>
      storeCalls[t].result = "thrown" /\ ~storeCalls[t].wrote

(* both operations have been called without the interview and have thrown, *)
(* and the store holds nothing                                             *)
C23_Witness ==
  /\ \E t \in StoreCalls :
       /\ storeCalls[t].op = "putScreen"
       /\ storeCalls[t].pc = "done" /\ storeCalls[t].absent
       /\ storeCalls[t].result = "thrown"
  /\ \E t \in StoreCalls :
       /\ storeCalls[t].op = "addScreenToInterview"
       /\ storeCalls[t].pc = "done" /\ storeCalls[t].absent
       /\ storeCalls[t].result = "thrown"
  /\ HoldsNothingOfInterview

(***************************************************************************)
(* C30: every call of putScreen and of addScreenToInterview ends, by       *)
(* storing the screen or by throwing, whatever calls of createInterview,   *)
(* putInterview and deleteInterview run interleaved with it; the number of *)
(* calls the two operations make of each other is at most two more than    *)
(* the number of other calls made on the store.                            *)
(***************************************************************************)
OtherCalls(t) == {u \in StoreCalls \ {t} : storeCalls[u].op # "none"}

HasEnded(t) ==
  storeCalls[t].pc = "done" /\ storeCalls[t].result \in {"stored", "thrown"}

C30_AlwaysTerminates ==
  /\ [](\A t \in StoreCalls :
          storeCalls[t].mutualCalls <= 2 + Cardinality(OtherCalls(t)))
  /\ <>[](\A t \in StoreCalls :
            AddsScreen(t) /\ storeCalls[t].pc # "idle" => HasEnded(t))

(* a call of putScreen that went through addScreenToInterview and back has *)
(* stored its screen, and one has thrown                                   *)
C30_Witness ==
  /\ \E t \in StoreCalls :
       /\ storeCalls[t].op = "putScreen" /\ HasEnded(t)
       /\ storeCalls[t].result = "stored"
       /\ storeCalls[t].mutualCalls >= 3
  /\ \E t \in StoreCalls :
       /\ AddsScreen(t) /\ HasEnded(t)
       /\ storeCalls[t].result = "thrown"

(***************************************************************************)
(* C24: a submission on screen S leaves the engine with the answers of S   *)
(* recorded and in the state that the rules of S give for the accumulator  *)
(* with these answers in it.                                               *)
(***************************************************************************)
IsSubmission ==
  /\ engine.status = "awaiting"
  /\ engine' # engine
  /\ engine'.status \in {"awaiting", "terminal"}
  /\ engineCount' = engineCount
  /\ lastSubmitted' = engine.screen

C24_RecordBeforeResolve ==
  [][IsSubmission =>
       LET S == ValueOf(engine.screen)
       IN  /\ \A i \in 1..Len(EntriesOfScreen(S)) :
                IsAnswered(engine'.responseData, EntriesOfScreen(S)[i].id)
           /\ StateOfEngine' = next(S, engine'.responseData)]_vars

(* a rule of screen S on the answer of S itself, given for the first time, *)
(* has sent the run to another screen than the one that follows S          *)
C24_Witness ==
  /\ IsDefined(lastSubmitted)
  /\ LET S == ValueOf(lastSubmitted)
     IN  /\ \E i \in MatchingRules(S, engine.responseData) :
              /\ actions[S][i].entryId = EntriesOfScreen(S)[1].id
              /\ StateOfEngine = actions[S][i].target
         /\ StateOfEngine # DefaultNext(S)
         /\ DOMAIN engine.responseData = {ResponseKeyOf(EntriesOfScreen(S)[1].id)}

(***************************************************************************)
(* C25: every updateRecord call of a completed run belongs to an EDIT_ROW  *)
(* action whose entry was answered, is of the record-backed type and has   *)
(* a non-empty record id under primaryKeyField in its answer; the call     *)
(* names the base and table selected in the entry and that record id.      *)
(***************************************************************************)
IsRecordBacked(call, responseData) ==
  LET actionPayload == submissionActions[call.action].config.payload
      e == actionPayload.entryId
  IN  /\ submissionActions[call.action].config.type = EDIT_ROW
      /\ IsAnswered(responseData, e)
      /\ Entry(e).responseType = AIRTABLE
      /\ LET answer == responseData[ResponseKeyOf(e)].value
         IN  /\ answer.kind = "record"
             /\ actionPayload.primaryKeyField \in DOMAIN answer.fields
             /\ answer.fields[actionPayload.primaryKeyField] # ""
             /\ call.recordId = answer.fields[actionPayload.primaryKeyField]
      /\ call.baseId = Entry(e).responseTypeOptions.selectedBase
      /\ call.tableId = Entry(e).responseTypeOptions.selectedTable

C25_EditRowOnlyForRecords ==
  ShowsCompletionScreen =>
    \A i \in 1..Len(sinkCalls) :
      sinkCalls[i].op = "updateRecord" =>
        IsRecordBacked(sinkCalls[i], ValueOf(completedResponseData))

(* an update was sent for the record that the respondent chose *)
C25_Witness ==
  /\ ShowsCompletionScreen
  /\ \E i \in 1..Len(sinkCalls) :
       /\ sinkCalls[i].op = "updateRecord"
       /\ sinkCalls[i].recordId = "v"

(***************************************************************************)
(* C28: in every sink call, a field whose mapping has an entryId holds the *)
(* recorded answer of that entry (sub-field responseFieldKey) and is left  *)
(* out when the entry has no answer, whether or not the mapping also has a *)
(* specialValueType; a field whose mapping has no entryId and a            *)
(* specialValueType holds the special value.                               *)
(***************************************************************************)
HasBoth(entryLookupConfig) ==
  IsDefined(entryLookupConfig.entryId)
  /\ IsDefined(entryLookupConfig.specialValueType)

C28_LookupPrecedence ==
  \A i \in 1..Len(sinkCalls) :
    LET call == sinkCalls[i]
        fieldMappings == submissionActions[call.action].fieldMappings
        responseData == ValueOf(completedResponseData)
    IN  \A f \in DOMAIN fieldMappings :
          IF IsDefined(fieldMappings[f].entryId)
          THEN LET e == ValueOf(fieldMappings[f].entryId)
               IN  IF IsAnswered(responseData, e)
                   THEN f \in DOMAIN call.fields =>
                          Def(call.fields[f]) =
                            getResponseValue(responseData, ResponseKeyOf(e),
                                             fieldMappings[f].responseFieldKey)
                   ELSE f \notin DOMAIN call.fields
          ELSE IsDefined(fieldMappings[f].specialValueType) =>
                 /\ f \in DOMAIN call.fields
                 /\ \E now \in Instants :
                      call.fields[f] = getSpecialValueForSubmission(
                        ValueOf(fieldMappings[f].specialValueType), now)

(* a record was created without the field whose mapping has an entryId     *)
(* without answer and a specialValueType as well                           *)
C28_Witness ==
  \E i \in 1..Len(sinkCalls) :
    LET call == sinkCalls[i]
        fieldMappings == submissionActions[call.action].fieldMappings
    IN  /\ call.op = "createRecord"
        /\ \E f \in DOMAIN fieldMappings :
             /\ HasBoth(fieldMappings[f])
             /\ ~IsAnswered(ValueOf(completedResponseData),
                            ValueOf(fieldMappings[f].entryId))
             /\ f \notin DOMAIN call.fields

(***************************************************************************)
(* C26: no step of the runner changes the supplied screen list: neither    *)
(* the selection of the starting screens, nor the flow, nor the handling   *)
(* of the submission actions.                                              *)
(***************************************************************************)
C26_ScreensNeverMutated ==
  [][screens' = screens]_vars

(* a run has completed on an interview whose starting screens were not     *)
(* supplied in the order of their startingStateOrder                       *)
C26_Witness ==
  /\ ShowsCompletionScreen
  /\ sinkCalls # <<>>
  /\ getStartingScreens(screens) # SelectSeq(screens, IsStartingScreen)

(***************************************************************************)
(* C27: a change of the action type in the on-submit editor replaces the   *)
(* action by one of the same identifier (id or tempId), the same order and *)
(* the same interviewId.                                                   *)
(***************************************************************************)
IsReplacement ==
  /\ Len(editedActions') = Len(editedActions)
  /\ editedActions' # editedActions

C27_TypeChangeReusesId ==
  [][IsReplacement =>
       \A i \in 1..Len(editedActions) :
         editedActions'[i].config.type # editedActions[i].config.type =>
           /\ KeyOf(editedActions'[i]) = KeyOf(editedActions[i])
           /\ editedActions'[i].order = editedActions[i].order
           /\ editedActions'[i].interviewId = editedActions[i].interviewId]_vars

(***************************************************************************)
(* C29: the order values of the submission actions in the on-submit editor *)
(* are pairwise distinct.                                                  *)
(***************************************************************************)
C29_DistinctOrders ==
  \A i, j \in 1..Len(editedActions) :
    i # j => editedActions[i].order # editedActions[j].order

=============================================================================
